---- MODULE Spec2Model ----
(***************************************************************************)
(* Model of the AI Karyashala maintenance scripts                          *)
(*   scripts/add_tool.py, scripts/add_template.py,                         *)
(*   scripts/delete_tool.py, scripts/delete_template.py                    *)
(*                                                                         *)
(* Text is a sequence of tokens.  A token is one character ("{", ",",      *)
(* "\n", "a", ...) or one literal that every regular expression of the     *)
(* scripts treats as a unit ("const", "aiTools", "name:", the counter      *)
(* markup).  The regular expressions are modelled by index-based matchers  *)
(* that follow Python's re semantics (leftmost match, greedy / non-greedy  *)
(* quantifiers).                                                           *)
(*                                                                         *)
(* Spec runs the four scripts, one after the other, on the files on disk:  *)
(* main() up to the commit is one step, each file-system call of the       *)
(* commit is a step of its own.  SpecFn applies the array and serializer   *)
(* functions to documents, bodies and records of bounded size.             *)
(***************************************************************************)
EXTENDS Integers, Sequences, FiniteSets, TLC

----------------------------------------------------------------------------
(* Characters                                                              *)

DQ == "\""
BS == "\\"
\* the backtick, which a TLA+ string cannot hold
BT == "BACKTICK"
NL == "\n"
SP == " "

\* the indentation format_tool_js / format_template_js write before the braces
\* (12 spaces) and before the fields (16 spaces) of an entry, each one token
OuterPad == "            "
InnerPad == "                "

\* Python's \s and the default argument of str.strip / str.rstrip
IsSpace(c) == c \in {SP, NL, "\t", OuterPad, InnerPad}

\* [^{}]
IsBrace(c) == c \in {"{", "}"}

\* \d
Digits == <<"0", "1", "2", "3", "4", "5", "6", "7", "8", "9">>

IsDigit(c) == \E d \in 1..10 : Digits[d] = c

----------------------------------------------------------------------------
(* Python string primitives                                                *)

\* F applied to the value of e, e being computed once: a local variable
\* assigned once and read many times
With(e, F(_)) == CHOOSE y \in {F(x) : x \in {e}} : TRUE

\* s[i:j] with 1-based inclusive-exclusive indices i..j-1
Slice(s, i, j) == IF j <= i THEN <<>> ELSE SubSeq(s, i, j - 1)

\* s.startswith(lit, i-1)
StartsWithAt(s, i, lit) ==
    /\ i >= 1
    /\ i + Len(lit) - 1 <= Len(s)
    /\ \A k \in 1..Len(lit) : s[i + k - 1] = lit[k]

\* lit in s
Contains(s, lit) == \E i \in 1..(Len(s) + 1) : StartsWithAt(s, i, lit)

\* s.endswith(c) for a one-character c
EndsWithChar(s, c) == Len(s) > 0 /\ s[Len(s)] = c

\* index of the first non-space character at or after i (Len(s)+1 when none): a greedy \s*
SkipWS(s, i) ==
    CHOOSE k \in i..(Len(s) + 1) :
        /\ \A m \in i..(k - 1) : IsSpace(s[m])
        /\ (k = Len(s) + 1 \/ ~IsSpace(s[k]))

\* s.rstrip()
RStrip(s) ==
    LET n == CHOOSE k \in 0..Len(s) :
                 /\ \A m \in (k + 1)..Len(s) : IsSpace(s[m])
                 /\ (k = 0 \/ ~IsSpace(s[k]))
    IN  SubSeq(s, 1, n)

\* s.rstrip(c)
RStripChar(s, c) ==
    LET n == CHOOSE k \in 0..Len(s) :
                 /\ \A m \in (k + 1)..Len(s) : s[m] = c
                 /\ (k = 0 \/ s[k] # c)
    IN  SubSeq(s, 1, n)

\* s.strip()
Strip(s) ==
    LET r == RStrip(s)
        f == SkipWS(r, 1)
    IN  Slice(r, f, Len(r) + 1)

\* s.replace(old, new): non-overlapping occurrences, left to right
RECURSIVE ReplaceFrom(_, _, _, _)
ReplaceFrom(s, i, old, new) ==
    IF i > Len(s) THEN <<>>
    ELSE IF StartsWithAt(s, i, old)
         THEN new \o ReplaceFrom(s, i + Len(old), old, new)
         ELSE <<s[i]>> \o ReplaceFrom(s, i + 1, old, new)

Replace(s, old, new) == ReplaceFrom(s, 1, old, new)

\* str(n) for n >= 0
RECURSIVE IntToStr(_)
IntToStr(n) ==
    IF n < 10 THEN <<Digits[n + 1]>>
    ELSE IntToStr(n \div 10) \o <<Digits[(n % 10) + 1]>>

DigitVal(c) == (CHOOSE d \in 1..10 : Digits[d] = c) - 1

\* int(s) for s matching \d+
RECURSIVE StrToInt(_)
StrToInt(s) ==
    IF Len(s) = 0 THEN 0
    ELSE 10 * StrToInt(SubSeq(s, 1, Len(s) - 1)) + DigitVal(s[Len(s)])

----------------------------------------------------------------------------
(* Array locator: re.search(r'(const\s+<name>\s*=\s*\[)(.*?)(\n\s*\];)',   *)
(* html, re.DOTALL)                                                        *)

NoMatch == [found |-> FALSE, start |-> 0, b |-> 0, e |-> 0, end |-> 0]

\* group 1 matched at i: const \s+ <name> \s* = \s* \[ ; the index after "[", or 0
HeaderEnd(html, i, arrayName) ==
    IF ~(i <= Len(html) /\ html[i] = "const") THEN 0
    ELSE LET a == SkipWS(html, i + 1)
         IN  IF ~(a > i + 1 /\ a <= Len(html) /\ html[a] = arrayName) THEN 0
             ELSE LET q == SkipWS(html, a + 1)
                  IN  IF ~(q <= Len(html) /\ html[q] = "=") THEN 0
                      ELSE LET o == SkipWS(html, q + 1)
                           IN  IF o <= Len(html) /\ html[o] = "[" THEN o + 1 ELSE 0

\* group 3 matched at j: \n \s* \] ; ; the index after ";", or 0
TerminatorEnd(html, j) ==
    IF ~(j <= Len(html) /\ html[j] = NL) THEN 0
    ELSE LET k == SkipWS(html, j + 1)
         IN  IF k + 1 <= Len(html) /\ html[k] = "]" /\ html[k + 1] = ";"
             THEN k + 2 ELSE 0

\* the whole pattern matched with group 1 at i: .*? takes the first terminator
MatchAt(html, i, arrayName) ==
    LET h == HeaderEnd(html, i, arrayName)
    IN  IF h = 0 THEN NoMatch
        ELSE LET J == {j \in h..Len(html) : TerminatorEnd(html, j) # 0}
             IN  IF J = {} THEN NoMatch
                 ELSE LET j == CHOOSE x \in J : \A y \in J : x <= y
                      IN  [found |-> TRUE, start |-> i, b |-> h, e |-> j,
                           end |-> TerminatorEnd(html, j)]

\* re.search: the leftmost position at which the pattern matches
Locate(html, arrayName) ==
    LET I == {i \in 1..Len(html) : MatchAt(html, i, arrayName).found}
    IN  IF I = {} THEN NoMatch
        ELSE MatchAt(html, CHOOSE x \in I : \A y \in I : x <= y, arrayName)

\* match.group(2)
Body(html, m) == Slice(html, m.b, m.e)

----------------------------------------------------------------------------
(* Array mutator, insertion                                                *)

\* InsertBody with a slip: the comma is appended without looking at the end of
\* the body
InsertBodyAlwaysComma(array_content, new_js) ==
    IF Strip(array_content) # <<>>
    THEN RStrip(array_content) \o <<",", NL>> \o new_js
    ELSE <<NL>> \o new_js

\* the comma handling of add_tool_to_html / add_template_to_html
InsertBody(array_content, new_js) ==
    IF Strip(array_content) # <<>>
    THEN LET c == RStrip(array_content)
         IN  (IF EndsWithChar(c, ",") THEN c ELSE c \o <<",">>) \o <<NL>> \o new_js
    ELSE <<NL>> \o new_js

\* None where a text is expected: a text no file holds
None == <<"None">>

\* html[:match.start()] + group1 + new body + group3 + html[match.end():]
InsertInArray(html_content, arrayName, new_js) ==
    With(Locate(html_content, arrayName), LAMBDA m :
        IF ~m.found THEN None
        ELSE Slice(html_content, 1, m.start)
             \o Slice(html_content, m.start, m.b)
             \o With(Body(html_content, m), LAMBDA array_content :
                     With(new_js, LAMBDA js : InsertBody(array_content, js)))
             \o Slice(html_content, m.e, m.end)
             \o Slice(html_content, m.end, Len(html_content) + 1))

----------------------------------------------------------------------------
(* Array mutator, removal:                                                 *)
(*   re.subn(rf'\{{[^{{}}]*<key>\s*"{re.escape(value)}"[^{{}}]*\}},?', '', *)
(*           array_body, flags=re.DOTALL)                                  *)

\* <key> \s* " value " matched at k: the index after the closing quote, or 0
KeyValueEnd(s, k, key, value) ==
    IF ~(k <= Len(s) /\ s[k] = key) THEN 0
    ELSE LET q == SkipWS(s, k + 1)
         IN  IF /\ q <= Len(s)
                /\ s[q] = DQ
                /\ StartsWithAt(s, q + 1, value)
                /\ q + 1 + Len(value) <= Len(s)
                /\ s[q + 1 + Len(value)] = DQ
             THEN q + 2 + Len(value) ELSE 0

\* [^{}]* \} ,? matched at e: the index after the match, or 0
BlockTailEnd(s, e) ==
    LET J == {j \in e..Len(s) : IsBrace(s[j])}
    IN  IF J = {} THEN 0
        ELSE LET j == CHOOSE x \in J : \A y \in J : x <= y
             IN  IF s[j] # "}" THEN 0
                 ELSE IF j + 1 <= Len(s) /\ s[j + 1] = "," THEN j + 2 ELSE j + 1

\* the entry pattern matched at i: the index after the match, or 0.
\* The first [^{}]* is greedy: of the positions k it can reach, the last one
\* from which the rest of the pattern matches is taken.
EntryEnd(s, i, key, value) ==
    IF ~(i <= Len(s) /\ s[i] = "{") THEN 0
    ELSE LET K == {k \in (i + 1)..Len(s) :
                      /\ \A m \in (i + 1)..(k - 1) : ~IsBrace(s[m])
                      /\ KeyValueEnd(s, k, key, value) # 0
                      /\ BlockTailEnd(s, KeyValueEnd(s, k, key, value)) # 0}
         IN  IF K = {} THEN 0
             ELSE LET k == CHOOSE x \in K : \A y \in K : x >= y
                  IN  BlockTailEnd(s, KeyValueEnd(s, k, key, value))

\* re.subn(pattern, '', s): <<new string, number of substitutions>>, scanning from pos
RECURSIVE SubnFrom(_, _, _, _)
SubnFrom(s, pos, key, value) ==
    LET I == {i \in pos..Len(s) : EntryEnd(s, i, key, value) # 0}
    IN  IF I = {} THEN <<Slice(s, pos, Len(s) + 1), 0>>
        ELSE LET i == CHOOSE x \in I : \A y \in I : x <= y
                 r == SubnFrom(s, EntryEnd(s, i, key, value), key, value)
             IN  <<Slice(s, pos, i) \o r[1], r[2] + 1>>

Subn(s, key, value) == SubnFrom(s, 1, key, value)

\* new_array.rstrip().rstrip(',')
TrimRemoved(new_array) == With(RStrip(new_array), LAMBDA t : RStripChar(t, ","))

\* DeleteFromArray with a slip: the `if count == 0` return is missing
DeleteFromArrayNoCount(html, arrayName, key, value) ==
    With(Locate(html, arrayName), LAMBDA m :
        IF ~m.found THEN <<None, FALSE>>
        ELSE With(Body(html, m), LAMBDA array_body :
             With(Subn(array_body, key, value), LAMBDA r :
                 <<Slice(html, 1, m.b)
                       \o With(r[1], LAMBDA new_array : TrimRemoved(new_array))
                       \o Slice(html, m.e, Len(html) + 1), TRUE>>)))

\* delete_tool / delete_template: <<new html or None, deleted>>
DeleteFromArray(html, arrayName, key, value) ==
    With(Locate(html, arrayName), LAMBDA m :
        IF ~m.found THEN <<None, FALSE>>
        ELSE With(Body(html, m), LAMBDA array_body :
             With(Subn(array_body, key, value), LAMBDA r :
                 IF r[2] = 0 THEN <<html, FALSE>>
                 ELSE <<Slice(html, 1, m.b)
                            \o With(r[1], LAMBDA new_array : TrimRemoved(new_array))
                            \o Slice(html, m.e, Len(html) + 1), TRUE>>)))

delete_tool(html, tool_name) == DeleteFromArray(html, "aiTools", "name:", tool_name)

delete_template(html, title) ==
    DeleteFromArray(html, "learningTemplates", "title:", title)

----------------------------------------------------------------------------
(* Record model.  A record is a function from field names to values; a     *)
(* text field holds a token sequence, features / useCases a sequence of    *)
(* token sequences, rating a number [t, v, s]: a float in tenths           *)
(* (t = "float"), an integer (t = "int") or a JSON string (t = "str").     *)

Has(rec, field) == field \in DOMAIN rec

\* dict.get(field, default)
Get(rec, field, default) == IF Has(rec, field) THEN rec[field] ELSE default

Float(tenths) == [t |-> "float", v |-> tenths, s |-> <<>>]

\* Missing with a slip: the scan stops at the first field that rec lacks
MissingFirstOnly(seq, rec) ==
    LET I == {i \in DOMAIN seq : ~(seq[i] \in DOMAIN rec)}
    IN  IF I = {} THEN <<>> ELSE <<seq[CHOOSE i \in I : \A j \in I : i <= j]>>

\* the fields of seq that rec lacks, in order: [f for f in seq if f not in rec]
RECURSIVE Missing(_, _)
Missing(seq, rec) ==
    IF seq = <<>> THEN <<>>
    ELSE (IF Has(rec, Head(seq)) THEN <<>> ELSE <<Head(seq)>>) \o Missing(Tail(seq), rec)

\* for key, value in defaults.items(): if key not in data: data[key] = value
WithDefaults(rec, defaults) ==
    [f \in DOMAIN rec \cup DOMAIN defaults |-> IF Has(rec, f) THEN rec[f] ELSE defaults[f]]

tool_required_fields ==
    <<"name", "logo", "category", "description", "features", "website", "docs">>

tool_defaults ==
    [logoType |-> <<"image">>, useCases |-> <<>>, pricing |-> <<"Freemium">>,
     rating |-> Float(45)]

\* validate_tool: [ok, missing, tool], tool being the dictionary as the call leaves it
validate_tool(tool_data) ==
    LET missing == Missing(tool_required_fields, tool_data)
    IN  IF missing # <<>> THEN [ok |-> FALSE, missing |-> missing, tool |-> tool_data]
        ELSE LET d == WithDefaults(tool_data, tool_defaults)
             IN  [ok |-> TRUE, missing |-> <<>>,
                  tool |-> IF StartsWithAt(d.logo, 1, <<"f", "a">>)
                           THEN [d EXCEPT !.logoType = <<"icon">>] ELSE d]

template_required_fields ==
    <<"title", "category", "description", "template", "example", "tips">>

DefaultIcon == <<"f", "a", "s", " ", "f", "a", "-", "robot">>
DefaultIconColor == <<"text-purple-500">>
DefaultBgColor == <<"bg-purple-50", " ", "dark:bg-purple-900/20">>
DefaultTime == <<"30-60", " ", "min">>

template_defaults ==
    [icon |-> DefaultIcon, iconColor |-> DefaultIconColor, bgColor |-> DefaultBgColor,
     difficulty |-> <<"Intermediate">>, estimatedTime |-> DefaultTime]

\* validate_template
validate_template(template_data) ==
    LET missing == Missing(template_required_fields, template_data)
    IN  IF missing # <<>>
        THEN [ok |-> FALSE, missing |-> missing, tool |-> template_data]
        ELSE [ok |-> TRUE, missing |-> <<>>,
              tool |-> WithDefaults(template_data, template_defaults)]

----------------------------------------------------------------------------
(* Literal serializer                                                      *)

\* str(x) of a number, as an f-string renders it
PyNum(r) ==
    IF r.t = "str" THEN r.s
    ELSE IF r.t = "int"
         THEN (IF r.v < 0 THEN <<"-">> \o IntToStr(-r.v) ELSE IntToStr(r.v))
         ELSE LET a == IF r.v < 0 THEN -r.v ELSE r.v
              IN  (IF r.v < 0 THEN <<"-">> ELSE <<>>)
                  \o IntToStr(a \div 10) \o <<".">> \o IntToStr(a % 10)

\* json.dumps of one character of a string (ensure_ascii=False)
JsonChar(c) ==
    IF c = DQ THEN <<BS, DQ>>
    ELSE IF c = BS THEN <<BS, BS>>
    ELSE IF c = NL THEN <<BS, "n">>
    ELSE IF c = "\t" THEN <<BS, "t">>
    ELSE <<c>>

RECURSIVE JsonStr(_)
JsonStr(str) == IF str = <<>> THEN <<>> ELSE JsonChar(Head(str)) \o JsonStr(Tail(str))

\* json.dumps(list of strings): ["a", "b"]
RECURSIVE JsonItems(_)
JsonItems(list) ==
    IF list = <<>> THEN <<>>
    ELSE <<DQ>> \o JsonStr(Head(list)) \o <<DQ>>
         \o (IF Len(list) > 1 THEN <<",", SP>> ELSE <<>>) \o JsonItems(Tail(list))

JsonDumps(list) == <<"[">> \o JsonItems(list) \o <<"]">>

\* one line `<key> "<value>",` of the object literal
QuotedLine(key, value, comma) ==
    <<InnerPad, key, SP, DQ>> \o value \o <<DQ>> \o comma \o <<NL>>

\* one line `<key> <value>,` of the object literal
RawLine(key, value, comma) ==
    <<InnerPad, key, SP>> \o value \o comma \o <<NL>>

\* description.replace('\\', '\\\\').replace('"', '\\"').replace('\n', ' ')
ToolDescription(d) ==
    Replace(Replace(Replace(d, <<BS>>, <<BS, BS>>), <<DQ>>, <<BS, DQ>>), <<NL>>, <<SP>>)

\* format_tool_js
format_tool_js(tool) ==
    <<OuterPad, "{", NL>>
    \o QuotedLine("name:", tool.name, <<",">>)
    \o QuotedLine("logo:", tool.logo, <<",">>)
    \o QuotedLine("logoType:", Get(tool, "logoType", <<"image">>), <<",">>)
    \o QuotedLine("category:", tool.category, <<",">>)
    \o QuotedLine("description:", ToolDescription(tool.description), <<",">>)
    \o RawLine("features:", JsonDumps(tool.features), <<",">>)
    \o RawLine("useCases:", JsonDumps(Get(tool, "useCases", <<>>)), <<",">>)
    \o QuotedLine("pricing:", Get(tool, "pricing", <<"Freemium">>), <<",">>)
    \o RawLine("rating:", PyNum(Get(tool, "rating", Float(45))), <<",">>)
    \o QuotedLine("website:", tool.website, <<",">>)
    \o QuotedLine("docs:", tool.docs, <<>>)
    \o <<OuterPad, "}">>

\* TemplateContent with a slip: the backslashes are doubled last, after the
\* escapes of the backtick and of ${ were written
TemplateContentBackslashLast(t) ==
    Replace(Replace(Replace(t, <<"$", "{">>, <<BS, "$", "{">>), <<BT>>, <<BS, BT>>),
            <<BS>>, <<BS, BS>>)

\* the three replace calls on template['template']
TemplateContent(t) ==
    Replace(Replace(Replace(t, <<BS>>, <<BS, BS>>), <<BT>>, <<BS, BT>>),
            <<"$", "{">>, <<BS, "$", "{">>)

\* x.replace('"', '\\"')
EscapeQuotes(x) == Replace(x, <<DQ>>, <<BS, DQ>>)

\* format_template_js
format_template_js(template) ==
    <<OuterPad, "{", NL>>
    \o QuotedLine("title:", template.title, <<",">>)
    \o QuotedLine("icon:", Get(template, "icon", DefaultIcon), <<",">>)
    \o QuotedLine("iconColor:", Get(template, "iconColor", DefaultIconColor), <<",">>)
    \o QuotedLine("bgColor:", Get(template, "bgColor", DefaultBgColor), <<",">>)
    \o QuotedLine("category:", template.category, <<",">>)
    \o QuotedLine("difficulty:", Get(template, "difficulty", <<"Intermediate">>), <<",">>)
    \o QuotedLine("description:", EscapeQuotes(template.description), <<",">>)
    \o RawLine("template:", <<BT>> \o TemplateContent(template.template) \o <<BT>>, <<",">>)
    \o QuotedLine("example:", EscapeQuotes(template.example), <<",">>)
    \o QuotedLine("tips:", EscapeQuotes(template.tips), <<",">>)
    \o QuotedLine("estimatedTime:", Get(template, "estimatedTime", DefaultTime), <<>>)
    \o <<OuterPad, "}">>

\* add_tool_to_html
add_tool_to_html(html_content, tool) ==
    InsertInArray(html_content, "aiTools", format_tool_js(tool))

\* add_template_to_html
add_template_to_html(html_content, template) ==
    InsertInArray(html_content, "learningTemplates", format_template_js(template))

----------------------------------------------------------------------------
(* Counter updater                                                         *)

\* <div class="text-4xl md:text-5xl font-black mb-1" id="tool-count">
ToolCountOpen == "<div class=stat id=tool-count>"
\* \+</div>
ToolCountClose == "+</div>"
\* <div class="text-4xl md:text-5xl font-black mb-1">
StatOpen == "<div class=stat>"
DivClose == "</div>"
\* <div class="text-sm opacity-80">Templates</div>
TemplatesLabel == "<div class=label>Templates</div>"

\* the index after a greedy \d+ starting at i, or 0 when there is no digit at i
DigitsEnd(s, i) ==
    IF ~(i <= Len(s) /\ IsDigit(s[i])) THEN 0
    ELSE CHOOSE k \in (i + 1)..(Len(s) + 1) :
             /\ \A m \in i..(k - 1) : IsDigit(s[m])
             /\ (k = Len(s) + 1 \/ ~IsDigit(s[k]))

\* the tool counter pattern matched at i
ToolCountAt(s, i) ==
    /\ s[i] = ToolCountOpen
    /\ DigitsEnd(s, i + 1) # 0
    /\ DigitsEnd(s, i + 1) <= Len(s)
    /\ s[DigitsEnd(s, i + 1)] = ToolCountClose

\* the template counter pattern matched at i: (open)(\d+)(</div>\s*<label>)
TemplateCountAt(s, i) ==
    /\ s[i] = StatOpen
    /\ DigitsEnd(s, i + 1) # 0
    /\ DigitsEnd(s, i + 1) <= Len(s)
    /\ s[DigitsEnd(s, i + 1)] = DivClose
    /\ SkipWS(s, DigitsEnd(s, i + 1) + 1) <= Len(s)
    /\ s[SkipWS(s, DigitsEnd(s, i + 1) + 1)] = TemplatesLabel

CountAt(s, i, kind) == IF kind = "tool" THEN ToolCountAt(s, i) ELSE TemplateCountAt(s, i)

\* re.search of the counter pattern: the index of the opening markup, or 0
CountSearch(s, kind) ==
    LET I == {i \in 1..Len(s) : CountAt(s, i, kind)}
    IN  IF I = {} THEN 0 ELSE CHOOSE x \in I : \A y \in I : x <= y

\* int(match.group(2))
CountValue(s, kind) ==
    LET i == CountSearch(s, kind) IN StrToInt(Slice(s, i + 1, DigitsEnd(s, i + 1)))

\* CountReplace with a slip: group(3), the markup that closes the counter, is
\* not written back
CountReplaceNoGroup3(s, kind, new) ==
    LET i == CountSearch(s, kind)
        d == DigitsEnd(s, i + 1)
        end == IF kind = "tool" THEN d + 1 ELSE SkipWS(s, d + 1) + 1
    IN  Slice(s, 1, i + 1) \o IntToStr(new) \o Slice(s, end, Len(s) + 1)

\* html[:match.start()] + group(1) + str(new) + group(3) + html[match.end():]
CountReplace(s, kind, new) ==
    LET i == CountSearch(s, kind)
    IN  Slice(s, 1, i + 1) \o IntToStr(new) \o Slice(s, DigitsEnd(s, i + 1), Len(s) + 1)

Max(a, b) == IF a >= b THEN a ELSE b

\* update_tool_count / update_template_count of the add scripts
add_update_count(html_content, kind, increment) ==
    IF CountSearch(html_content, kind) # 0
    THEN CountReplace(html_content, kind, CountValue(html_content, kind) + increment)
    ELSE html_content

\* update_tool_count / update_template_count of the delete scripts
delete_update_count(html, kind, decrement) ==
    IF CountSearch(html, kind) # 0
    THEN CountReplace(html, kind, Max(0, CountValue(html, kind) - decrement))
    ELSE html

----------------------------------------------------------------------------
(* Interactive record entry                                                *)

\* [x.strip() for x in s.split(',') if x.strip()], reading s from index i on
RECURSIVE SplitFrom(_, _)
SplitFrom(s, i) ==
    LET C == {k \in i..Len(s) : s[k] = ","}
        j == IF C = {} THEN Len(s) + 1 ELSE CHOOSE x \in C : \A y \in C : x <= y
        item == Strip(Slice(s, i, j))
        rest == IF j > Len(s) THEN <<>> ELSE SplitFrom(s, j + 1)
    IN  (IF item = <<>> THEN <<>> ELSE <<item>>) \o rest

SplitList(s) == SplitFrom(s, 1)

AllDigits(s) == Len(s) > 0 /\ \A k \in 1..Len(s) : IsDigit(s[k])

\* int(s): [ok, v]; ok = FALSE stands for ValueError
PyInt(s) ==
    LET x == Strip(s)
        signed == Len(x) > 0 /\ x[1] \in {"-", "+"}
        d == IF signed THEN Tail(x) ELSE x
    IN  IF ~AllDigits(d) THEN [ok |-> FALSE, v |-> 0]
        ELSE [ok |-> TRUE, v |-> IF signed /\ x[1] = "-" THEN -StrToInt(d) ELSE StrToInt(d)]

\* float(s) for the decimal forms d+, d+.d: [ok, v] with v in tenths
PyFloat(s) ==
    LET x == Strip(s)
        signed == Len(x) > 0 /\ x[1] \in {"-", "+"}
        d == IF signed THEN Tail(x) ELSE x
        P == {k \in 1..Len(d) : d[k] = "."}
        sign == IF signed /\ x[1] = "-" THEN -1 ELSE 1
    IN  IF P = {} THEN
            (IF AllDigits(d) THEN [ok |-> TRUE, v |-> sign * 10 * StrToInt(d)]
             ELSE [ok |-> FALSE, v |-> 0])
        ELSE LET k == CHOOSE x1 \in P : TRUE
                 ip == Slice(d, 1, k)
                 fp == Slice(d, k + 1, Len(d) + 1)
             IN  IF Cardinality(P) = 1 /\ AllDigits(ip) /\ Len(fp) = 1 /\ AllDigits(fp)
                 THEN [ok |-> TRUE, v |-> sign * (10 * StrToInt(ip) + StrToInt(fp))]
                 ELSE [ok |-> FALSE, v |-> 0]

Min(a, b) == IF a <= b THEN a ELSE b

\* the rating prompt of get_tool_from_input
InputRating(raw) ==
    LET rating_input == Strip(raw)
    IN  IF rating_input = <<>> THEN Float(45)
        ELSE LET f == PyFloat(rating_input)
             IN  IF f.ok THEN Float(Max(10, Min(50, f.v))) ELSE Float(45)

\* pricing_map.get(pricing_choice, 'Freemium')
InputPricing(raw) ==
    LET c == IF Strip(raw) = <<>> THEN <<"2">> ELSE Strip(raw)
    IN  IF c = <<"1">> THEN <<"Free">>
        ELSE IF c = <<"3">> THEN <<"Paid">> ELSE <<"Freemium">>

\* sys.exit(1) where a dictionary is expected
Exit1 == [exit |-> 1]

\* None where a dictionary is expected (read_json_file failed)
NoDict == [none |-> 1]

\* get_tool_from_input: the dictionary, or Exit1 for sys.exit(1)
get_tool_from_input(in) ==
    IF Strip(in.name) = <<>> THEN Exit1
    ELSE [name |-> Strip(in.name),
          logo |-> Strip(in.logo),
          logoType |-> IF StartsWithAt(Strip(in.logo), 1, <<"f", "a">>)
                       THEN <<"icon">> ELSE <<"image">>,
          category |-> Strip(in.category),
          description |-> Strip(in.description),
          features |-> SplitList(Strip(in.features)),
          useCases |-> IF Strip(in.useCases) # <<>>
                       THEN SplitList(Strip(in.useCases)) ELSE <<>>,
          pricing |-> InputPricing(in.pricing),
          rating |-> InputRating(in.rating),
          website |-> Strip(in.website),
          docs |-> Strip(in.docs)]

CATEGORY_OPTIONS ==
    <<<<"Learning", " ", "Method">>, <<"Self", " ", "Testing">>, <<"Hands-On">>,
      <<"Structured", " ", "Learning">>, <<"Problem", " ", "Solving">>,
      <<"Creative", " ", "Writing">>, <<"Code", " ", "Review">>, <<"Research">>>>

DIFFICULTY_OPTIONS ==
    <<<<"Beginner">>, <<"Intermediate">>, <<"Advanced">>, <<"All", " ", "Levels">>>>

FaIcon(n) == <<"f", "a", "s", " ", "f", "a", "-", n>>
Tint(c) == <<"bg-" \o c \o "-50", " ", "dark:bg-" \o c \o "-900/20">>
IconOption(n, c) == <<FaIcon(n), <<"text-" \o c \o "-500">>, Tint(c)>>

\* ICON_OPTIONS, keys '1' .. '10' in order: (icon, iconColor, bgColor)
ICON_OPTIONS ==
    <<IconOption("seedling", "green"), IconOption("brain", "purple"),
      IconOption("code", "blue"), IconOption("chalkboard-teacher", "orange"),
      IconOption("lightbulb", "yellow"), IconOption("rocket", "red"),
      IconOption("puzzle-piece", "indigo"), IconOption("book", "teal"),
      IconOption("flask", "pink"), IconOption("robot", "gray")>>

\* icon_choice in ICON_OPTIONS: the position of the key, or 0
IconKey(choice) ==
    LET K == {k \in 1..Len(ICON_OPTIONS) : IntToStr(k) = choice}
    IN  IF K = {} THEN 0 ELSE CHOOSE k \in K : TRUE

\* the category prompt
InputCategory(raw, custom) ==
    LET cat_choice == IF Strip(raw) = <<>> THEN <<"1">> ELSE Strip(raw)
        n == PyInt(cat_choice)
    IN  IF ~n.ok THEN cat_choice
        ELSE IF 0 <= n.v - 1 /\ n.v - 1 < Len(CATEGORY_OPTIONS)
             THEN CATEGORY_OPTIONS[n.v] ELSE Strip(custom)

\* the difficulty prompt
InputDifficulty(raw) ==
    LET diff_choice == IF Strip(raw) = <<>> THEN <<"2">> ELSE Strip(raw)
        n == PyInt(diff_choice)
    IN  IF n.ok /\ 0 <= n.v - 1 /\ n.v - 1 < Len(DIFFICULTY_OPTIONS)
        THEN DIFFICULTY_OPTIONS[n.v] ELSE <<"Intermediate">>

\* '\n'.join(lines)
RECURSIVE JoinLines(_)
JoinLines(lines) ==
    IF lines = <<>> THEN <<>>
    ELSE Head(lines) \o (IF Len(lines) > 1 THEN <<NL>> ELSE <<>>) \o JoinLines(Tail(lines))

\* get_template_from_input: the dictionary, or Exit1 for sys.exit(1);
\* in.lines are the lines typed before the END line
get_template_from_input(in) ==
    IF Strip(in.title) = <<>> THEN Exit1
    ELSE LET icon_choice == IF Strip(in.icon) = <<>> THEN <<"2">> ELSE Strip(in.icon)
             k == IconKey(icon_choice)
         IN  [title |-> Strip(in.title),
              category |-> InputCategory(in.category, in.custom),
              icon |-> IF k # 0 THEN ICON_OPTIONS[k][1] ELSE DefaultIcon,
              iconColor |-> IF k # 0 THEN ICON_OPTIONS[k][2] ELSE DefaultIconColor,
              bgColor |-> IF k # 0 THEN ICON_OPTIONS[k][3] ELSE DefaultBgColor,
              difficulty |-> InputDifficulty(in.difficulty),
              description |-> Strip(in.description),
              template |-> JoinLines(in.lines),
              example |-> Strip(in.example),
              tips |-> Strip(in.tips),
              estimatedTime |-> IF Strip(in.estimatedTime) = <<>> THEN DefaultTime
                                ELSE Strip(in.estimatedTime)]

----------------------------------------------------------------------------
(* CLI drivers: main() of the four scripts up to the commit                *)

ArrayName(kind) == IF kind = "tool" THEN "aiTools" ELSE "learningTemplates"
KeyName(kind) == IF kind = "tool" THEN "name:" ELSE "title:"
IdField(kind) == IF kind = "tool" THEN "name" ELSE "title"

Validate(kind, data) ==
    IF kind = "tool" THEN validate_tool(data) ELSE validate_template(data)

AddToHtml(kind, html_content, data) ==
    IF kind = "tool" THEN add_tool_to_html(html_content, data)
    ELSE add_template_to_html(html_content, data)

Delete(kind, content, value) ==
    IF kind = "tool" THEN delete_tool(content, value) ELSE delete_template(content, value)

\* f'name: "{tool["name"]}"' in html_content
MayExist(kind, html_content, data) ==
    Contains(html_content, <<KeyName(kind), SP, DQ>> \o data[IdField(kind)] \o <<DQ>>)

Stop(code, msgs) ==
    [next |-> "exit", status |-> code, out |-> msgs, new_html |-> <<>>, data |-> <<>>,
     deleted |-> FALSE]

\* main() of add_tool.py / add_template.py from its first line to the call of
\* write_html_file.  pathOK: index.html was found; loaded: what read_json_file or
\* get_*_from_input returned; confirm, proceed: the answers to the two questions;
\* content: what read_html_file returned.
AddMain(kind, pathOK, loaded, confirm, content, proceed) ==
    IF ~pathOK THEN Stop(1, <<"no_index">>)
    ELSE IF loaded = NoDict THEN Stop(1, <<"json_error">>)
    ELSE IF loaded = Exit1 THEN Stop(1, <<"empty_name">>)
    ELSE IF DOMAIN loaded = {} THEN Stop(1, <<>>)
    ELSE With(Validate(kind, loaded), LAMBDA v :
             IF ~v.ok THEN Stop(1, <<"missing">>)
             ELSE IF ~confirm THEN Stop(0, <<"valid", "cancelled">>)
             ELSE IF content = None \/ content = <<>> THEN Stop(1, <<"valid", "read_error">>)
             ELSE IF MayExist(kind, content, v.tool) /\ ~proceed
                  THEN Stop(0, <<"valid", "may_exist", "cancelled">>)
             ELSE With(AddToHtml(kind, content, v.tool), LAMBDA added :
                  LET warned == IF MayExist(kind, content, v.tool)
                                THEN <<"valid", "may_exist">> ELSE <<"valid">>
                  IN  IF added = None THEN Stop(1, warned \o <<"array_not_found">>)
                      ELSE [next |-> "commit", status |-> 0,
                            out |-> warned \o (IF CountSearch(added, kind) # 0
                                               THEN <<"count_updated">> ELSE <<>>),
                            new_html |-> add_update_count(added, kind, 1),
                            data |-> v.tool, deleted |-> FALSE]))

\* NotDeleted with a slip: the message is printed and the return is missing, so
\* main goes on to the counter and the commit
NotDeletedNoReturn(kind, r) ==
    [next |-> "commit", status |-> 0,
     out |-> (IF r[1] = None THEN <<"array_not_found">> ELSE <<>>) \o <<"not_found">>,
     new_html |-> IF r[1] = None THEN None ELSE delete_update_count(r[1], kind, 1),
     data |-> <<>>, deleted |-> r[2]]

\* main() of the delete scripts when delete_* returned deleted = False: the
\* message, and the return that ends the run.  r is what delete_* returned;
\* main's new_html holds r[1].
NotDeleted(kind, r) ==
    [Stop(0, (IF r[1] = None THEN <<"array_not_found">> ELSE <<>>) \o <<"not_found">>)
        EXCEPT !.new_html = r[1]]

\* main() of delete_tool.py / delete_template.py from its first line to the call
\* of write_html.  content = None: read_html raised.
DeleteMain(kind, pathOK, content, value) ==
    IF ~pathOK THEN Stop(0, <<"no_index">>)
    ELSE IF content = None THEN Stop(1, <<"read_traceback">>)
    ELSE With(Delete(kind, content, value), LAMBDA r :
             IF ~r[2] THEN NotDeleted(kind, r)
             ELSE With(r[1], LAMBDA new_html :
                  [next |-> "commit", status |-> 0,
                   out |-> IF CountSearch(new_html, kind) # 0
                           THEN <<"count_updated">> ELSE <<>>,
                   new_html |-> delete_update_count(new_html, kind, 1),
                   data |-> <<>>, deleted |-> TRUE]))

----------------------------------------------------------------------------
(* State                                                                   *)

VARIABLES
    html,       \* the content of index.html on disk
    nbackups,   \* the number of files in backups/
    backup,     \* the content of the newest file in backups/ (None when there is none)
    jsonlog,    \* data/tools_backup.json and data/templates_backup.json
    pc,         \* where the running script is: idle, the steps of the commit, log, done
    op,         \* "add" or "delete": the script that runs
    kind,       \* "tool" or "template"
    arg,        \* the value of --name / --title of a delete run
    new_html,   \* main's new_html, the content to commit
    data,       \* the validated record of an add
    deleted,    \* the second value returned by delete_tool / delete_template
    original,   \* the content the commit read from the target (backup_content / original)
    out,        \* the messages printed so far by the run
    status,     \* the exit status of the run
    commit,     \* "none", "running", "ok" or "failed": the run's commit
    pre,        \* the content of index.html when the run started
    bk0,        \* <<nbackups, backup>> when the run started
    runs,       \* the number of runs started
    fop,        \* SpecFn: the function applied last ("input" before the first)
    fin,        \* SpecFn: the arguments
    fout        \* SpecFn: the value returned

disk_vars == <<html, nbackups, backup, jsonlog>>
fn_vars == <<fop, fin, fout>>
vars == <<html, nbackups, backup, jsonlog, pc, op, kind, arg, new_html, data, deleted, original, out,
          status, commit, pre, bk0, runs, fop, fin, fout>>

\* the number of script runs explored
MaxRuns == 2

Kinds == {"tool", "template"}

----------------------------------------------------------------------------
(* Documents and records the runs are given                                *)

Counters(n) ==
    <<ToolCountOpen>> \o IntToStr(n) \o <<ToolCountClose, NL,
      StatOpen>> \o IntToStr(n) \o <<DivClose, NL, SP, TemplatesLabel, NL>>

\* const <name> = [ <body> ];
ArrayLiteral(name, body) ==
    <<"const", SP, name, SP, "=", SP, "[">> \o body \o <<NL, SP, "]", ";", NL>>

ToolA ==
    [name |-> <<"A">>, logo |-> <<"u">>, category |-> <<"c">>, description |-> <<"d">>,
     features |-> <<<<"x">>>>, website |-> <<"w">>, docs |-> <<"w">>]

\* ToolA without its docs field
ToolNoDocs == [f \in DOMAIN ToolA \ {"docs"} |-> ToolA[f]]

ToolInputB ==
    [name |-> <<"B">>, logo |-> <<"f", "a", "-", "x">>, category |-> <<"c">>,
     description |-> <<"d">>, features |-> <<"x", ",", "y">>, useCases |-> <<>>,
     pricing |-> <<"1">>, rating |-> <<"6", ".", "2">>, website |-> <<"w">>,
     docs |-> <<"w">>]

ToolInputEmpty == [ToolInputB EXCEPT !.name = <<SP>>]

TemplateA ==
    [title |-> <<"A">>, category |-> <<"c">>, description |-> <<"d">>,
     template |-> <<"t", NL, "$", "{", "x", "}">>, example |-> <<"e">>, tips |-> <<"p">>]

TemplateNoTips == [f \in DOMAIN TemplateA \ {"tips"} |-> TemplateA[f]]

TemplateInputB ==
    [title |-> <<"B">>, category |-> <<"3">>, custom |-> <<>>, icon |-> <<"1">>,
     difficulty |-> <<>>, description |-> <<"d">>, lines |-> <<<<"t">>, <<"u">>>>,
     example |-> <<"e">>, tips |-> <<"p">>, estimatedTime |-> <<>>]

\* what the load step of an add run can produce: read_json_file's result
\* (--file) or get_*_from_input's (interactive)
Loaded(k) ==
    IF k = "tool"
    THEN {NoDict, ToolA, ToolNoDocs,
          get_tool_from_input(ToolInputB), get_tool_from_input(ToolInputEmpty)}
    ELSE {NoDict, TemplateA, TemplateNoTips, get_template_from_input(TemplateInputB)}

\* a page that lists one tool and one template, both named A, counters at 1
PageA ==
    Counters(1)
    \o ArrayLiteral("aiTools", <<NL>> \o format_tool_js(validate_tool(ToolA).tool))
    \o ArrayLiteral("learningTemplates",
                    <<NL>> \o format_template_js(validate_template(TemplateA).tool))

\* a page with an empty aiTools array and no learningTemplates array
ToolsOnlyDoc == Counters(0) \o ArrayLiteral("aiTools", <<>>)

InitDocs == {PageA, ToolsOnlyDoc}

\* the values of --name / --title
DeleteKeys == {<<"A">>, <<"B">>}

----------------------------------------------------------------------------
(* Runs                                                                    *)

NoLog == [state |-> "absent", items |-> <<>>]

Init ==
    /\ html \in InitDocs
    /\ nbackups = 0
    /\ backup = None
    /\ jsonlog = [k \in Kinds |-> NoLog]
    /\ pc = "idle"
    /\ op = "none"
    /\ kind = "none"
    /\ arg = <<>>
    /\ new_html = <<>>
    /\ data = <<>>
    /\ deleted = FALSE
    /\ original = <<>>
    /\ out = <<>>
    /\ status = 0
    /\ commit = "none"
    /\ pre = html
    /\ bk0 = <<0, None>>
    /\ runs = 0
    /\ fop = "none"
    /\ fin = <<>>
    /\ fout = <<>>

\* no script is running and another run may start
Idle == pc \in {"idle", "done"} /\ runs < MaxRuns

\* a run starts and goes on to the call of the commit, or to its exit
Begin(o, k, a, m) ==
    /\ runs' = runs + 1
    /\ op' = o
    /\ kind' = k
    /\ arg' = a
    /\ pre' = html
    /\ bk0' = <<nbackups, backup>>
    /\ original' = <<>>
    /\ new_html' = m.new_html
    /\ data' = m.data
    /\ deleted' = m.deleted
    /\ out' = m.out
    /\ status' = m.status
    /\ commit' = IF m.next = "commit" THEN "running" ELSE "none"
    /\ pc' = IF m.next = "commit" THEN "commit" ELSE "done"
    /\ UNCHANGED <<disk_vars, fn_vars>>

\* the operator's and the file system's answers to an add run, one for each
\* way main() can go: [pathOK, confirm, readOK, proceed]
AddAnswers ==
    {[pathOK |-> FALSE, confirm |-> TRUE, readOK |-> TRUE, proceed |-> TRUE],
     [pathOK |-> TRUE, confirm |-> FALSE, readOK |-> TRUE, proceed |-> TRUE],
     [pathOK |-> TRUE, confirm |-> TRUE, readOK |-> FALSE, proceed |-> TRUE],
     [pathOK |-> TRUE, confirm |-> TRUE, readOK |-> TRUE, proceed |-> FALSE],
     [pathOK |-> TRUE, confirm |-> TRUE, readOK |-> TRUE, proceed |-> TRUE]}

\* add_tool.py / add_template.py: main() up to write_html_file
AddRun ==
    /\ Idle
    /\ \E k \in Kinds, a \in AddAnswers :
        \E loaded \in Loaded(k) :
            \E m \in {AddMain(k, a.pathOK, loaded, a.confirm,
                              IF a.readOK THEN html ELSE None, a.proceed)} :
                Begin("add", k, <<>>, m)

\* [pathOK, readOK] of a delete run
DeleteAnswers ==
    {[pathOK |-> FALSE, readOK |-> TRUE], [pathOK |-> TRUE, readOK |-> FALSE],
     [pathOK |-> TRUE, readOK |-> TRUE]}

\* delete_tool.py / delete_template.py: main() up to write_html
DeleteRun ==
    /\ Idle
    /\ \E k \in Kinds, a \in DeleteAnswers, value \in DeleteKeys :
        \E m \in {DeleteMain(k, a.pathOK, IF a.readOK THEN html ELSE None, value)} :
            Begin("delete", k, value, m)

----------------------------------------------------------------------------
(* Backup-and-write: write_html_file (add scripts), write_html (delete     *)
(* scripts), one action per file-system call                               *)

\* an exception inside the commit: the add scripts catch it, print it and
\* main exits 1; the delete scripts let it end the process
Raise ==
    /\ out' = out \o (IF op = "add" THEN <<"write_error", "failed_save">>
                      ELSE <<"write_traceback">>)
    /\ status' = 1
    /\ commit' = "failed"
    /\ pc' = "done"

\* os.makedirs(backup_dir, exist_ok=True)
MakeBackupDir ==
    /\ pc = "commit"
    /\ \E ok \in BOOLEAN :
        IF ok THEN pc' = "read" /\ UNCHANGED <<out, status, commit>> ELSE Raise
    /\ UNCHANGED <<disk_vars, fn_vars, op, kind, arg, new_html, data, deleted, original,
                   pre, bk0, runs>>

\* with open(filepath, 'r') as f: original = f.read()
ReadTarget ==
    /\ pc = "read"
    /\ \E ok \in BOOLEAN :
        IF ok THEN /\ pc' = "backup"
                   /\ original' = html
                   /\ UNCHANGED <<out, status, commit>>
        ELSE Raise /\ UNCHANGED original
    /\ UNCHANGED <<disk_vars, fn_vars, op, kind, arg, new_html, data, deleted, pre, bk0, runs>>

\* with open(backup_path, 'w') as f: f.write(original).  The file is named by
\* the current second: in the second of the newest backup it replaces that
\* file, otherwise it is a new file.
WriteBackup ==
    /\ pc = "backup"
    /\ \E res \in {"ok", "open_fails", "write_fails"}, sameSecond \in BOOLEAN :
        LET n == IF sameSecond /\ nbackups > 0 THEN nbackups ELSE nbackups + 1
        IN  CASE res = "ok" ->
                    /\ nbackups' = n
                    /\ backup' = original
                    /\ pc' = "open"
                    /\ out' = IF op = "add" THEN Append(out, "backup_created") ELSE out
                    /\ UNCHANGED <<status, commit>>
              [] res = "open_fails" -> Raise /\ UNCHANGED <<nbackups, backup>>
              [] res = "write_fails" -> Raise /\ nbackups' = n /\ backup' = <<>>
    /\ UNCHANGED <<html, jsonlog, fn_vars, op, kind, arg, new_html, data,
                   deleted, original,
                   pre, bk0, runs>>

\* open(filepath, 'w'): the file is truncated when the open succeeds
OpenTarget ==
    /\ pc = "open"
    /\ \E ok \in BOOLEAN :
        IF ok THEN /\ html' = <<>>
                   /\ pc' = "write"
                   /\ UNCHANGED <<out, status, commit>>
        ELSE Raise /\ UNCHANGED html
    /\ UNCHANGED <<nbackups, backup, jsonlog, fn_vars, op, kind, arg, new_html, data,
                   deleted,
                   original, pre, bk0, runs>>

\* f.write(content) and the close of the file; a failing write leaves the
\* part of content written before it failed
WriteTarget ==
    /\ pc = "write"
    /\ \E ok \in BOOLEAN, part \in {0, Len(new_html) \div 2} :
        IF ok
        THEN /\ html' = new_html
             /\ commit' = "ok"
             /\ status' = 0
             /\ IF op = "add"
                THEN pc' = "log" /\ out' = Append(out, "success")
                ELSE pc' = "done" /\ out' = out \o <<"backup_created", "deleted">>
        ELSE Raise /\ html' = SubSeq(new_html, 1, part)
    /\ UNCHANGED <<nbackups, backup, jsonlog, fn_vars, op, kind, arg, new_html, data,
                   deleted,
                   original, pre, bk0, runs>>

\* read_json_file(backup_path) or []
ExistingLog(file) == IF file.state = "list" THEN file.items ELSE <<>>

\* main() of the add scripts after the commit: the record is appended to the
\* JSON backup collection; write_json_file reports a failure and main ends
SaveJsonBackup ==
    /\ pc = "log"
    /\ \E res \in {"ok", "open_fails", "write_fails"} :
        CASE res = "ok" ->
                /\ jsonlog' = [jsonlog EXCEPT ![kind] =
                        [state |-> "list", items |-> Append(ExistingLog(jsonlog[kind]), data)]]
                /\ out' = Append(out, "json_saved")
          [] res = "open_fails" ->
                /\ UNCHANGED jsonlog
                /\ out' = Append(out, "json_write_error")
          [] res = "write_fails" ->
                /\ jsonlog' = [jsonlog EXCEPT ![kind] = [state |-> "corrupt", items |-> <<>>]]
                /\ out' = Append(out, "json_write_error")
    /\ pc' = "done"
    /\ UNCHANGED <<html, nbackups, backup, fn_vars, op, kind, arg, new_html, data,
                   deleted,
                   original, status, commit, pre, bk0, runs>>

Next ==
    \/ AddRun
    \/ DeleteRun
    \/ MakeBackupDir
    \/ ReadTarget
    \/ WriteBackup
    \/ OpenTarget
    \/ WriteTarget
    \/ SaveJsonBackup

Spec == Init /\ [][Next]_vars

----------------------------------------------------------------------------
(* The functions applied to documents, bodies and records of bounded size  *)

\* the number of pieces (comma, space, newline, entry) of an array body
MaxBody == 3
\* the number of entries of a comma-separated array body
MaxEntries == 3
\* the length of the text of a template field
MaxLen == 4
\* the length of the text of a double-quoted field
MaxEsc == 2

\* a hand-written entry: {<key> "<v>"}
Entry(key, v) == <<"{", key, SP, DQ>> \o v \o <<DQ, "}">>

\* the sequences of at most n elements of S, each a one-token text
RECURSIVE TextsUpTo(_, _)
TextsUpTo(S, n) ==
    IF n = 0 THEN {<<>>}
    ELSE TextsUpTo(S, n - 1) \cup {Append(t, c) : t \in TextsUpTo(S, n - 1), c \in S}

\* the bodies made of at most n pieces
RECURSIVE BodiesUpTo(_, _)
BodiesUpTo(P, n) ==
    IF n = 0 THEN {<<>>}
    ELSE BodiesUpTo(P, n - 1) \cup {b \o x : b \in BodiesUpTo(P, n - 1), x \in P}

Pieces(k) == {<<",">>, <<SP>>, <<NL>>, Entry(KeyName(k), <<"B">>)}

\* a tool whose description holds a {x} placeholder
ToolBraces == [ToolA EXCEPT !.description = <<"d", "{", "x", "}">>]

\* a template without braces in any field
TemplatePlain == [TemplateA EXCEPT !.template = <<"t">>]

Records(k) == IF k = "tool" THEN {ToolA, ToolBraces} ELSE {TemplateA, TemplatePlain}

\* documents and records for add_*_to_html followed by delete_*
InsertInputsOf(k) ==
    {[case |-> "insert", kind |-> k, doc |-> ArrayLiteral(ArrayName(k), b), rec |-> r] :
        b \in BodiesUpTo(Pieces(k), MaxBody), r \in Records(k)}

InsertInputs == InsertInputsOf("tool") \cup InsertInputsOf("template")

\* the ways an array literal is closed, and what follows it
Closings == {<<"]", ";">>, <<SP, "]", ";">>, <<NL, "]", ";">>, <<NL, SP, "]", ";">>}

LaterArray ==
    <<NL>> \o ArrayLiteral("learningTemplates", <<NL>> \o Entry("title:", <<"T">>))

\* documents that contain `const aiTools = [`
LocateInputs ==
    {[case |-> "locate",
      doc |-> pfx \o <<"const", SP, "aiTools", SP, "=", SP, "[">> \o b \o c \o sfx] :
        pfx \in {<<>>, Counters(0)},
        b \in {<<>>, <<SP>>, <<NL>> \o Entry("name:", <<"B">>),
               <<NL>> \o Entry("name:", <<"B">>) \o <<",", NL>> \o Entry("name:", <<"C">>)},
        c \in Closings,
        sfx \in {<<>>, <<NL>>, LaterArray}}

\* what stands between two entries of a comma-separated body
Separators == {<<",">>, <<",", NL>>, <<SP, ",">>, <<NL, ",", SP>>}

\* entries named vals[i..], seps[i] standing after the entry i
RECURSIVE JoinEntries(_, _, _)
JoinEntries(vals, seps, i) ==
    IF i > Len(vals) THEN <<>>
    ELSE Entry("name:", <<vals[i]>>)
         \o (IF i < Len(vals) THEN seps[i] ELSE <<>>)
         \o JoinEntries(vals, seps, i + 1)

\* array bodies of 1..MaxEntries comma-separated flat entries named A or B
DeleteInputs ==
    {[case |-> "delete", vals |-> v,
      doc |-> ArrayLiteral("aiTools", lead \o JoinEntries(v, sp, 1) \o trail)] :
        v \in UNION {[1..n -> {"A", "B"}] : n \in 1..MaxEntries},
        sp \in [1..(MaxEntries - 1) -> Separators],
        lead \in {<<>>, <<NL>>},
        trail \in {<<>>, <<",">>}}

\* records with one double-quoted field set to a text of quotes and backslashes
QuotedInputs ==
    {[case |-> "quoted", kind |-> "tool", rec |-> [ToolA EXCEPT ![f] = t]] :
        f \in {"name", "description"}, t \in TextsUpTo({BS, DQ, "a"}, MaxEsc)}
    \cup
    {[case |-> "quoted", kind |-> "template", rec |-> [TemplatePlain EXCEPT ![f] = t]] :
        f \in {"title", "description"}, t \in TextsUpTo({BS, DQ, "a"}, MaxEsc)}

\* templates whose template field is a text of backslashes, backticks, dollar
\* signs, opening braces and ordinary characters
TemplateTextInputs ==
    {[case |-> "template_text", kind |-> "template",
      rec |-> [TemplatePlain EXCEPT !.template = t]] :
        t \in TextsUpTo({BS, BT, "$", "{", "a"}, MaxLen)}

\* the ratings a --file record can carry: json.load keeps any JSON value
JsonInt(n) == [t |-> "int", v |-> n, s |-> <<>>]
JsonText(text) == [t |-> "str", v |-> 0, s |-> text]

FileRatings == {Float(62), Float(5), Float(10), Float(30), Float(50), JsonInt(7), JsonInt(0),
                JsonText(<<"h", "i">>)}

\* the answers to the prompt "Rating (1.0-5.0, default: 4.5)"
TypedRatings == {<<"6", ".", "2">>, <<"0", ".", "5">>, <<"3", ".", "0">>, <<"7">>,
                 <<"h", "i">>, <<>>, <<"-", "1">>}

\* ToolA with one more field
ToolWith(field, value) ==
    [f \in DOMAIN ToolA \cup {field} |-> IF f = field THEN value ELSE ToolA[f]]

\* tool records on their way to format_tool_js, from --file and from the prompts
RatingInputs ==
    {[case |-> "rating", kind |-> "tool", source |-> "file", rec |-> ToolWith("rating", r)] :
        r \in FileRatings}
    \cup
    {[case |-> "rating", kind |-> "tool", source |-> "file", rec |-> ToolA]}
    \cup
    {[case |-> "rating", kind |-> "tool", source |-> "input",
      rec |-> get_tool_from_input([ToolInputB EXCEPT !.rating = t])] : t \in TypedRatings}

\* a tool and a template that carry every field, none at its default
ToolFull ==
    [f \in DOMAIN ToolA \cup DOMAIN tool_defaults |->
        IF f \in DOMAIN ToolA THEN ToolA[f]
        ELSE IF f = "logoType" THEN <<"icon">>
        ELSE IF f = "useCases" THEN <<<<"k">>>>
        ELSE IF f = "pricing" THEN <<"Paid">>
        ELSE Float(30)]

TemplateFull ==
    [f \in DOMAIN TemplatePlain \cup DOMAIN template_defaults |->
        IF f \in DOMAIN TemplatePlain THEN TemplatePlain[f]
        ELSE IF f = "difficulty" THEN <<"Advanced">>
        ELSE IF f = "estimatedTime" THEN <<"5", " ", "min">>
        ELSE <<"x">>]

\* the dictionary rec without the keys outside D
Restrict(rec, D) == [f \in D \cap DOMAIN rec |-> rec[f]]

\* the logos and the logoType values a caller supplies
Logos == {<<"u">>, <<"f", "a", "-", "x">>}
LogoTypes == {<<"icon">>, <<"image">>}

\* dictionaries handed to validate_tool / validate_template: every subset of
\* the required and optional fields
ValidateInputs ==
    {[case |-> "validate", kind |-> "tool",
      rec |-> Restrict([ToolFull EXCEPT !.logo = l, !.logoType = t], D)] :
        D \in SUBSET DOMAIN ToolFull, l \in Logos, t \in LogoTypes}
    \cup
    {[case |-> "validate", kind |-> "template", rec |-> Restrict(TemplateFull, D)] :
        D \in SUBSET DOMAIN TemplateFull}

\* the largest value a displayed counter starts from
MaxCount == 10

\* the markup around the digits of the counter of kind k
CountOpen(k) == IF k = "tool" THEN ToolCountOpen ELSE StatOpen
CountCloses(k) ==
    IF k = "tool" THEN {<<ToolCountClose>>}
    ELSE {<<DivClose, TemplatesLabel>>, <<DivClose, NL, SP, TemplatesLabel>>}

OtherKind(k) == IF k = "tool" THEN "template" ELSE "tool"

\* what stands before the counter: nothing, text, an opening markup that no
\* digits follow, the counter of the other kind
CountPrefixes(k) ==
    {<<>>, <<"x", NL>>, <<CountOpen(k), "x">>,
     <<CountOpen(OtherKind(k)), "3">> \o (CHOOSE c \in CountCloses(OtherKind(k)) : TRUE)}

\* what stands after it: nothing, an array literal, a second counter
CountSuffixes(k) ==
    {<<>>, <<NL>> \o ArrayLiteral(ArrayName(k), Entry(KeyName(k), <<"B">>)),
     <<NL, CountOpen(k), "5">> \o (CHOOSE c \in CountCloses(k) : TRUE)}

\* documents without the counter of kind k
CountAbsent(k) ==
    {<<>>, <<"x">>, <<CountOpen(k)>>, <<CountOpen(k), "1">>, <<CountOpen(k), "1", "x">>,
     <<CountOpen(k), DivClose>>, <<"1", DivClose>>,
     <<StatOpen, "1", DivClose, "x", TemplatesLabel>>,
     <<CountOpen(OtherKind(k)), "3">> \o (CHOOSE c \in CountCloses(OtherKind(k)) : TRUE)}

\* documents for update_tool_count / update_template_count, with the place of
\* the counter's digits when it is there
CountInputsOf(k) ==
    {[case |-> "count", kind |-> k, script |-> o, present |-> TRUE, n |-> n,
      before |-> pfx \o <<CountOpen(k)>>, digits |-> z \o IntToStr(n), after |-> c \o sfx,
      doc |-> pfx \o <<CountOpen(k)>> \o z \o IntToStr(n) \o c \o sfx] :
        o \in {"add", "delete"}, n \in 0..MaxCount, z \in {<<>>, <<"0">>},
        pfx \in CountPrefixes(k), c \in CountCloses(k), sfx \in CountSuffixes(k)}
    \cup
    {[case |-> "count", kind |-> k, script |-> o, present |-> FALSE, n |-> 0,
      before |-> d, digits |-> <<>>, after |-> <<>>, doc |-> d] :
        o \in {"add", "delete"}, d \in CountAbsent(k)}

CountInputs == CountInputsOf("tool") \cup CountInputsOf("template")

driver_vars ==
    <<html, nbackups, backup, jsonlog, pc, op, kind, arg, new_html, data, deleted,
      original, out, status, commit, pre, bk0, runs>>

FnInit ==
    /\ html = PageA
    /\ nbackups = 0
    /\ backup = None
    /\ jsonlog = [k \in Kinds |-> NoLog]
    /\ pc = "idle"
    /\ op = "none"
    /\ kind = "none"
    /\ arg = <<>>
    /\ new_html = <<>>
    /\ data = <<>>
    /\ deleted = FALSE
    /\ original = <<>>
    /\ out = <<>>
    /\ status = 0
    /\ commit = "none"
    /\ pre = html
    /\ bk0 = <<0, None>>
    /\ runs = 0
    /\ fop = "input"
    /\ fout = <<>>
    /\ \/ fin \in LocateInputs
       \/ fin \in InsertInputs
       \/ fin \in DeleteInputs
       \/ fin \in QuotedInputs
       \/ fin \in TemplateTextInputs
       \/ fin \in RatingInputs
       \/ fin \in ValidateInputs
       \/ fin \in CountInputs

\* re.search(pattern, html, re.DOTALL) of the four array functions
FnLocate ==
    /\ fop = "input"
    /\ fin.case = "locate"
    /\ fout' = Locate(fin.doc, "aiTools")
    /\ fop' = "located"
    /\ UNCHANGED <<fin, driver_vars>>

\* validate_* and add_*_to_html on a document
FnInsert ==
    /\ fop = "input"
    /\ fin.case = "insert"
    /\ \E v \in {Validate(fin.kind, fin.rec)} :
        /\ v.ok
        /\ fout' = AddToHtml(fin.kind, fin.doc, v.tool)
    /\ fop' = "inserted"
    /\ UNCHANGED <<fin, driver_vars>>

\* delete_* by the record's name / title on the document add_*_to_html returned
FnRemove ==
    /\ fop = "inserted"
    /\ fout # None
    /\ fout' = Delete(fin.kind, fout, fin.rec[IdField(fin.kind)])
    /\ fop' = "removed"
    /\ UNCHANGED <<fin, driver_vars>>

\* delete_tool(html, "A")
FnDelete ==
    /\ fop = "input"
    /\ fin.case = "delete"
    /\ fout' = delete_tool(fin.doc, <<"A">>)
    /\ fop' = "deleted"
    /\ UNCHANGED <<fin, driver_vars>>

\* validate_* and format_tool_js / format_template_js
FnSerialize ==
    /\ fop = "input"
    /\ fin.case \in {"quoted", "template_text", "rating"}
    /\ \E v \in {Validate(fin.kind, fin.rec)} :
        /\ v.ok
        /\ fout' = IF fin.kind = "tool" THEN format_tool_js(v.tool)
                   ELSE format_template_js(v.tool)
    /\ fop' = "serialized"
    /\ UNCHANGED <<fin, driver_vars>>

\* validate_tool / validate_template on a dictionary
FnValidate ==
    /\ fop = "input"
    /\ fin.case = "validate"
    /\ fout' = Validate(fin.kind, fin.rec)
    /\ fop' = "validated"
    /\ UNCHANGED <<fin, driver_vars>>

\* update_tool_count / update_template_count, called as the scripts call them
FnCount ==
    /\ fop = "input"
    /\ fin.case = "count"
    /\ fout' = IF fin.script = "add" THEN add_update_count(fin.doc, fin.kind, 1)
               ELSE delete_update_count(fin.doc, fin.kind, 1)
    /\ fop' = "counted"
    /\ UNCHANGED <<fin, driver_vars>>

FnNext ==
    \/ FnLocate
    \/ FnInsert
    \/ FnRemove
    \/ FnDelete
    \/ FnSerialize
    \/ FnValidate
    \/ FnCount

SpecFn == FnInit /\ [][FnNext]_vars

----------------------------------------------------------------------------
(* Properties                                                              *)

\* the run printed message m
Said(m) == \E i \in DOMAIN out : out[i] = m

\* s without its whitespace
NoWS(s) == SelectSeq(s, LAMBDA c : ~IsSpace(c))

\* <key> "<value>" stands at i of s, whitespace allowed after the key
CarriesAt(s, i, key, value) ==
    /\ s[i] = key
    /\ \E j \in (i + 1)..Len(s) :
        /\ \A k \in (i + 1)..(j - 1) : IsSpace(s[k])
        /\ s[j] = DQ
        /\ StartsWithAt(s, j + 1, value \o <<DQ>>)

\* the number of entries of the array of kind k in doc that carry the value
\* (0 when the array is not located)
Occurrences(doc, k, value) ==
    LET m == Locate(doc, ArrayName(k))
    IN  IF ~m.found THEN 0
        ELSE Cardinality({i \in m.b..(m.e - 1) : CarriesAt(doc, i, KeyName(k), value)})

\* a delete run that reached the call of delete_tool / delete_template
DeleteCalled == op = "delete" /\ ~Said("no_index") /\ ~Said("read_traceback")

\* C1: the target differs from its pre-commit content only while the backup
\* holds the complete pre-commit content, and a commit that failed at any step
\* leaves the target with its pre-commit content.
C1_CommitAtomic ==
    /\ (html # pre => nbackups >= 1 /\ backup = pre)
    /\ (commit = "failed" => html = pre)

\* the messages of the ways a run ends before its commit
AbortMessages ==
    {"no_index", "json_error", "empty_name", "missing", "cancelled", "read_error",
     "array_not_found", "not_found", "read_traceback"}

Aborted == \E i \in DOMAIN out : out[i] \in AbortMessages

\* C2: a run that ended on a missing field, an unreadable record, an array or
\* key not found, or a declined question never started its commit, left the
\* target as it was before the run and created no backup file.
C2_AbortLeavesDiskAlone ==
    (pc = "done" /\ (commit = "none" \/ Aborted)) =>
        /\ commit = "none"
        /\ html = pre
        /\ <<nbackups, backup>> = bk0

\* a second run, after a committed first one, ended because the key was not found
C2_Witness ==
    /\ pc = "done"
    /\ runs = 2
    /\ nbackups = 1
    /\ Said("not_found")
    /\ commit = "none"

\* the body of the array of kind k in doc, when it is located
BodyOf(doc, k) == Body(doc, Locate(doc, ArrayName(k)))

\* C3: inserting a valid record whose name / title is not in the array and then
\* removing by that name / title gives a body equal, whitespace ignored, to
\* the body before the insertion.
C3_InsertRemoveRoundTrip ==
    (fop = "removed" /\ Occurrences(fin.doc, fin.kind, fin.rec[IdField(fin.kind)]) = 0) =>
        /\ fout[1] # None
        /\ Locate(fout[1], ArrayName(fin.kind)).found
        /\ NoWS(BodyOf(fout[1], fin.kind)) = NoWS(BodyOf(fin.doc, fin.kind))

\* the index after the `[` of `const aiTools = [` in doc
AfterBracket(doc) == (CHOOSE i \in 1..Len(doc) : doc[i] = "aiTools") + 5

\* the index of the first `];` at or after i in doc, 0 when there is none
FirstClose(doc, i) ==
    LET J == {j \in i..(Len(doc) - 1) : doc[j] = "]" /\ doc[j + 1] = ";"}
    IN  IF J = {} THEN 0 ELSE CHOOSE x \in J : \A y \in J : x <= y

\* C4: in a document that contains `const aiTools = [`, the array is located,
\* its body starts after that bracket and is the text up to the first `];`
\* that follows (whitespace before the `]` aside), and the region ends with
\* that `];`; `const aiTools = [];` is located with an empty body.
C4_LocatesOwnArray ==
    fop = "located" =>
        LET o == AfterBracket(fin.doc)
            c == FirstClose(fin.doc, o)
        IN  /\ fout.found
            /\ fout.b = o
            /\ fout.end = c + 2
            /\ NoWS(Slice(fin.doc, fout.b, fout.e)) = NoWS(Slice(fin.doc, o, c))

\* the number of pairs of commas of s with nothing but whitespace between them
DoubledCommas(s) ==
    Cardinality({p \in (1..Len(s)) \X (1..Len(s)) :
                    /\ p[1] < p[2]
                    /\ s[p[1]] = ","
                    /\ s[p[2]] = ","
                    /\ \A k \in (p[1] + 1)..(p[2] - 1) : IsSpace(s[k])})

\* the entry add_*_to_html formats for the record of fin
EntryOf(in) ==
    IF in.kind = "tool" THEN format_tool_js(Validate(in.kind, in.rec).tool)
    ELSE format_template_js(Validate(in.kind, in.rec).tool)

\* the text add_*_to_html put in the place of the located body of in.doc:
\* result = doc[:b] + new body + doc[e:]
InsertedBody(in, result) ==
    LET m == Locate(in.doc, ArrayName(in.kind))
    IN  Slice(result, m.b, Len(result) + 1 - (Len(in.doc) + 1 - m.e))

\* C5: a body that is not blank becomes itself without its trailing
\* whitespace, one comma unless it ends with one, a newline and the entry; a
\* blank body becomes a newline and the entry.  The new body does not end with
\* a comma and has no doubled comma that the old body or the entry did not have.
C5_InsertCommaHandling ==
    (fop \in {"inserted"} /\ fout # None) =>
        LET old == BodyOf(fin.doc, fin.kind)
            entry == EntryOf(fin)
            new == InsertedBody(fin, fout)
            kept == RStrip(old)
        IN  /\ Strip(old) # <<>> /\ EndsWithChar(kept, ",") =>
                new = kept \o <<NL>> \o entry
            /\ Strip(old) # <<>> /\ ~EndsWithChar(kept, ",") =>
                new = kept \o <<",", NL>> \o entry
            /\ Strip(old) = <<>> => new = <<NL>> \o entry
            /\ ~EndsWithChar(new, ",")
            /\ DoubledCommas(new) = DoubledCommas(old) + DoubledCommas(entry)

\* an entry was inserted after a body that ends with a comma and whitespace
C5_Witness ==
    /\ fop = "inserted"
    /\ fout # None
    /\ EndsWithChar(RStrip(BodyOf(fin.doc, fin.kind)), ",")
    /\ BodyOf(fin.doc, fin.kind) # RStrip(BodyOf(fin.doc, fin.kind))

\* C6: a delete run whose key no entry of the located array carries gets the
\* document back unchanged with deleted = False, and neither updates the
\* counter nor starts the commit.
C6_AbsentKeyNoChange ==
    (DeleteCalled /\ Locate(pre, ArrayName(kind)).found /\ Occurrences(pre, kind, arg) = 0) =>
        /\ new_html = pre
        /\ deleted = FALSE
        /\ ~Said("count_updated")
        /\ commit = "none"
        /\ pc = "done"
        /\ html = pre

\* a delete run on a body with an entry, none carrying the key
C6_Witness ==
    /\ DeleteCalled
    /\ pc = "done"
    /\ Locate(pre, ArrayName(kind)).found
    /\ Strip(BodyOf(pre, kind)) # <<>>
    /\ Occurrences(pre, kind, arg) = 0
    /\ Said("not_found")

\* the entries of vals other than A, without whitespace, one comma between two
RECURSIVE Remaining(_, _)
Remaining(vals, i) ==
    IF i > Len(vals) THEN <<>>
    ELSE IF vals[i] = "A" THEN Remaining(vals, i + 1)
    ELSE LET rest == Remaining(vals, i + 1)
         IN  NoWS(Entry("name:", <<vals[i]>>))
             \o (IF rest = <<>> THEN <<>> ELSE <<",">>) \o rest

\* the body of the document delete_tool returned for the document of in:
\* the text between the `[` and the closing of the literal
RemainingBody(result) == Slice(result, 8, Len(result) + 1 - 5)

\* C7: after a removal with at least one match from a body of comma-separated
\* flat entries, the body holds the other entries unchanged and in order, one
\* comma between two of them, no leading comma and no trailing comma.
C7_WellFormedAfterRemove ==
    (fop = "deleted" /\ fout[2]) =>
        NoWS(RemainingBody(fout[1])) = Remaining(fin.vals, 1)

\* the messages of a delete that found one entry
PlainDeleteMessages == {"count_updated", "backup_created", "deleted"}

\* C8: a delete run by a name / title that two entries of the array carry
\* removes both, and reports the two removals and the ambiguous match.
C8_DuplicateDeleteReported ==
    (DeleteCalled /\ pc = "done" /\ commit # "failed" /\ Occurrences(pre, kind, arg) = 2) =>
        /\ deleted
        /\ commit = "ok"
        /\ Occurrences(html, kind, arg) = 0
        /\ \E i \in DOMAIN out : out[i] \notin PlainDeleteMessages

\* a template literal's text read as JavaScript reads it, from index i: ok is
\* FALSE at a backtick that is not escaped, at a ${ that is not escaped and at
\* a backslash that ends the text; v is the text with the escapes removed
RECURSIVE ReadTemplateLiteral(_, _)
ReadTemplateLiteral(s, i) ==
    IF i > Len(s) THEN [ok |-> TRUE, v |-> <<>>]
    ELSE IF s[i] = BS
         THEN IF i = Len(s) THEN [ok |-> FALSE, v |-> <<>>]
              ELSE LET r == ReadTemplateLiteral(s, i + 2)
                   IN  [ok |-> r.ok, v |-> <<s[i + 1]>> \o r.v]
    ELSE IF s[i] = BT THEN [ok |-> FALSE, v |-> <<>>]
    ELSE IF s[i] = "$" /\ i < Len(s) /\ s[i + 1] = "{" THEN [ok |-> FALSE, v |-> <<>>]
    ELSE LET r == ReadTemplateLiteral(s, i + 1)
         IN  [ok |-> r.ok, v |-> <<s[i]>> \o r.v]

\* the text between the backticks of the template: line of a formatted entry
EmbeddedTemplate(js) ==
    LET i == CHOOSE x \in 1..Len(js) : js[x] = "template:"
        j == CHOOSE x \in 1..Len(js) : js[x] = "example:"
    IN  Slice(js, i + 3, j - 4)

\* C9: the text format_template_js writes between the backticks for a template
\* of backslashes, backticks, dollar signs, braces and ordinary characters
\* reads back, by the rules of a JavaScript template literal, as the template
\* itself, and holds no unescaped backtick and no substitution start.
C9_TemplateRoundTrip ==
    (fop = "serialized" /\ fin.case = "template_text") =>
        LET js == fout
            i == CHOOSE x \in 1..Len(js) : js[x] = "template:"
            j == CHOOSE x \in 1..Len(js) : js[x] = "example:"
            r == ReadTemplateLiteral(EmbeddedTemplate(js), 1)
        IN  /\ js[i + 2] = BT
            /\ js[j - 4] = BT
            /\ r.ok
            /\ r.v = fin.rec.template

\* a template with a backslash, a backtick and a ${ was formatted
C9_Witness ==
    /\ fop = "serialized"
    /\ fin.case = "template_text"
    /\ fin.rec.template = <<BS, BT, "$", "{">>
    /\ EmbeddedTemplate(fout) = <<BS, BS, BS, BT, BS, "$", "{">>

\* the fields written between double quotes
QuotedFields(k) ==
    IF k = "tool"
    THEN {"name", "logo", "logoType", "category", "description", "pricing", "website",
          "docs"}
    ELSE {"title", "icon", "iconColor", "bgColor", "category", "difficulty",
          "description", "example", "tips", "estimatedTime"}

\* backslash -> two backslashes, double quote -> backslash and double quote
EscapedForQuotes(t) == Replace(Replace(t, <<BS>>, <<BS, BS>>), <<DQ>>, <<BS, DQ>>)

\* C10: the entry holds, for every field written between double quotes, the
\* line `<field>: "<value>"` with the value's backslashes doubled and its
\* double quotes preceded by a backslash.
C10_QuotedFieldsEscaped ==
    (fop = "serialized" /\ fin.case = "quoted") =>
        \A f \in QuotedFields(fin.kind) :
            LET value == Validate(fin.kind, fin.rec).tool[f]
                line == <<InnerPad, f \o ":", SP, DQ>> \o EscapedForQuotes(value) \o <<DQ>>
            IN  \/ Contains(fout, line \o <<",", NL>>)
                \/ Contains(fout, line \o <<NL>>)

\* the text between the key at i of s and the comma that ends its line
ValueAfter(s, i) ==
    LET j == CHOOSE j \in (i + 1)..Len(s) :
                 /\ s[j] \in {",", NL}
                 /\ \A k \in (i + 1)..(j - 1) : s[k] \notin {",", NL}
    IN  Strip(Slice(s, i + 1, j))

\* the rating of a serialized tool entry, as written
EmittedRating(entry) ==
    ValueAfter(entry, CHOOSE i \in DOMAIN entry : entry[i] = "rating:")

\* C11: every serialized Tool record, from the prompts or from --file, carries
\* a rating that is a number within [1.0, 5.0]
C11_RatingClamped ==
    (fop = "serialized" /\ fin.case = "rating") =>
        LET f == PyFloat(EmittedRating(fout))
        IN  f.ok /\ 10 <= f.v /\ f.v <= 50

\* C12: after a successful validate_tool the logoType is icon when the logo
\* starts with fa and image otherwise, whatever logoType the caller supplied
C12_LogoTypeFromLogo ==
    (fop = "validated" /\ fin.kind = "tool" /\ fout.ok) =>
        fout.tool.logoType = IF StartsWithAt(fout.tool.logo, 1, <<"f", "a">>)
                             THEN <<"icon">> ELSE <<"image">>

\* C13: the counter update rewrites only the digits of the counter, to
\* max(0, n + 1) in the add scripts and max(0, n - 1) in the delete scripts,
\* and returns a document without the counter as it is
C13_CounterUpdate ==
    (fop = "counted") =>
        IF fin.present
        THEN fout = fin.before
                    \o IntToStr(Max(0, fin.n + (IF fin.script = "add" THEN 1 ELSE -1)))
                    \o fin.after
        ELSE fout = fin.doc

\* a delete on a counter at 0 and an add that lengthens the digits
C13_Witness ==
    /\ fop = "counted"
    /\ fin.present
    /\ \/ fin.script = "delete" /\ fin.n = 0 /\ fin.digits = <<"0", "0">>
       \/ fin.script = "add" /\ fin.n = 9

\* the elements of the backup collection of kind k (none when the file is
\* absent or does not parse)
LogItems(log, k) == ExistingLog(log[k])

\* C14: the backup JSON collection only grows at its end: a step changes the
\* file of a kind only when a successful add of that kind saves its record, and
\* then the file holds the earlier elements, in order, followed by that record
C14_BackupAppendOnly ==
    [][\A k \in Kinds :
          jsonlog'[k] # jsonlog[k] =>
              /\ pc = "log" /\ op = "add" /\ kind = k /\ commit = "ok"
              /\ jsonlog'[k].state = "list"
              /\ LogItems(jsonlog', k) = Append(LogItems(jsonlog, k), data)]_vars

\* the diagnostics of a validation, lookup or I/O failure
FailureMessages ==
    {"no_index", "json_error", "empty_name", "missing", "read_error", "array_not_found",
     "not_found", "read_traceback", "write_error", "failed_save", "write_traceback"}

Failed == \E i \in DOMAIN out : out[i] \in FailureMessages

\* C15: a finished run that completed the change or was declined by the user
\* has exit status 0, and one that hit a validation, lookup or I/O failure has
\* printed a diagnostic and has a non-zero exit status
C15_ExitStatus ==
    (pc = "done") =>
        /\ (commit = "ok" /\ ~Failed) => status = 0
        /\ Said("cancelled") => status = 0
        /\ (commit # "ok" /\ ~Said("cancelled")) => (Failed /\ status # 0)

\* the elements of a sequence
Range(seq) == {seq[i] : i \in DOMAIN seq}

RequiredFields(k) ==
    IF k = "tool" THEN tool_required_fields ELSE template_required_fields

Defaults(k) == IF k = "tool" THEN tool_defaults ELSE template_defaults

\* C16: validate_tool / validate_template succeeds exactly when no required
\* field is absent; a failure reports each absent required field once and
\* leaves the record as it was; a success fills each absent optional field with
\* its default (a Tool's absent logoType with the type its logo implies) and
\* keeps the value of each field that was present, a Tool's logoType excepted
C16_Validate ==
    (fop = "validated") =>
        LET rec == fin.rec
            absent == Range(RequiredFields(fin.kind)) \ DOMAIN rec
            defs == Defaults(fin.kind)
            logoType(f) == fin.kind = "tool" /\ f = "logoType"
        IN  /\ fout.ok <=> absent = {}
            /\ ~fout.ok =>
                /\ Range(fout.missing) = absent
                /\ Len(fout.missing) = Cardinality(absent)
                /\ fout.tool = rec
            /\ fout.ok =>
                /\ DOMAIN fout.tool = DOMAIN rec \cup DOMAIN defs
                /\ \A f \in DOMAIN defs \ DOMAIN rec :
                    fout.tool[f] = IF logoType(f) /\ StartsWithAt(rec.logo, 1, <<"f", "a">>)
                                   THEN <<"icon">> ELSE defs[f]
                /\ \A f \in DOMAIN rec : logoType(f) \/ fout.tool[f] = rec[f]

\* a validation that succeeded on a record with one optional field present and
\* another absent
C16_Witness ==
    /\ fop = "validated"
    /\ fout.ok
    /\ \E f, g \in DOMAIN Defaults(fin.kind) : Has(fin.rec, f) /\ ~Has(fin.rec, g)

\* the number of entries of the array of kind k in doc: each entry carries its
\* key once
EntryCount(doc, k) ==
    LET m == Locate(doc, ArrayName(k))
    IN  Cardinality({i \in m.b..(m.e - 1) : doc[i] = KeyName(k)})

\* doc displays the counter of kind k and it equals the number of entries
InSync(doc, k) ==
    /\ CountSearch(doc, k) # 0
    /\ Locate(doc, ArrayName(k)).found
    /\ CountValue(doc, k) = EntryCount(doc, k)

\* C17: a successful add or delete run on a document whose counter equals the
\* number of entries of its array leaves a document whose counter equals the
\* number of entries
C17_CounterInSync ==
    (pc \in {"log", "done"} /\ commit = "ok" /\ InSync(pre, kind)) => InSync(html, kind)

\* C18: delete_* called with the name / title of a valid record on the
\* document add_*_to_html produced for it reports deleted = True and returns a
\* document without that entry and with the other entries it had
C18_AddedEntryDeletable ==
    (fop = "removed") =>
        /\ fout[2]
        /\ fout[1] # None
        /\ Occurrences(fout[1], fin.kind, fin.rec[IdField(fin.kind)]) = 0
        /\ Occurrences(fout[1], fin.kind, <<"B">>) = Occurrences(fin.doc, fin.kind, <<"B">>)

====
